---- MODULE Spec2Model ----
(***************************************************************************)
(* A model of pydevd_attach_to_process/add_code_to_python_process.py:      *)
(* the shell-code helper (GenShellCodeHelper), resolve_label, and the two  *)
(* drivers run_python_code_windows / run_python_code_linux.                *)
(*                                                                         *)
(* The file is Python 2 source (line 322 is a print statement), so the     *)
(* exception semantics modelled are those of Python 2.                     *)
(*                                                                         *)
(* Numbers wider than TLC's integers (addresses of up to 64 bits) are kept *)
(* as four 16-bit limbs, least significant limb first.                     *)
(***************************************************************************)
EXTENDS Integers, Sequences, FiniteSets, TLC

VARIABLES
    platform,                 \* sys.platform: "win32" or "linux"
    python_code,              \* the source fragment (a sequence of characters)
    connect_debugger_tracing, \* the third parameter of run_python_code
    target_bits,              \* what process.get_bits() answers: 32 or 64
    python_64bit,             \* is_python_64bit() of the injecting interpreter
    pc,                       \* the statement the driver is about to execute
    is_64,                    \* local of run_python_code_windows
    attach_func,              \* local: address of AttachAndRunPythonCode
    code_address,             \* local: the code buffer
    return_code_address,      \* local: the result buffer
    startup_info,             \* local: the flags word
    helper_code,              \* helper._code: the list of appended chunks
    code,                     \* local: helper.get_code(), the flat trampoline
    pInjectedMemory,          \* thread.pInjectedMemory
    return_code,              \* local: what read_int gave
    i,                        \* resolve_label: the loop counter
    heap,                     \* target process: allocated address -> content
    thread,                   \* target process: "none", "running", "terminated"
    trace,                    \* every call made on the target, in order
    outcome,                  \* how the driver call ended
    pk,                       \* pack_address under test: input and result
    scopes                    \* the with blocks entered and not yet left

inputs == <<platform, python_code, connect_debugger_tracing, target_bits, python_64bit>>
locals == <<is_64, attach_func, code_address, return_code_address, startup_info,
            helper_code, code, pInjectedMemory, return_code>>
target == <<heap, thread>>
unit == <<pk, scopes>>
vars == <<inputs, pc, locals, i, target, trace, outcome, unit>>

----------------------------------------------------------------------------
(* Bounds of the model *)

\* longest source fragment tried
MaxCodeLen == 1
\* number of distinct non-zero addresses the target's allocator can hand out
NumHeapAddrs == 3

----------------------------------------------------------------------------
(* Program constants *)

\* line 255: for i in range(3)
RETRIES == 3
\* line 267: time.sleep(2)
SLEEP == 2
\* line 313
CONNECT_DEBUGGER == 2
\* line 316
SHOW_DEBUG_INFO == 1

----------------------------------------------------------------------------
(* Addresses: four 16-bit limbs, least significant first *)

NULL == <<0, 0, 0, 0>>

\* Python truthiness of an address (assert address)
Truthy(address) == address # NULL

\* the k-th address the target's heap can hand out (k >= 1), in the user half
\* of the address space of either width: 0x00k0k000
HeapAddr(k) == <<(k * 4096) % 65536, k * 16, 0, 0>>

HeapAddrs == {HeapAddr(k) : k \in 1..NumHeapAddrs}

\* where the target's modules export the two symbols: 0x7ff01000, 0x7ff02000
SymAddr(label) ==
    IF label = "PyGILState_Ensure" THEN <<4096, 32752, 0, 0>> ELSE <<8192, 32752, 0, 0>>

----------------------------------------------------------------------------
(* GenShellCodeHelper: the translation tables, lines 105-178 *)

Translations32 ==
    [mn \in {"push esi", "push eax", "push ebp", "push ebx",
             "pop esi", "pop eax", "pop ebp", "pop ebx",
             "mov esi", "mov eax", "mov ebp", "mov ebx",
             "call ebp", "call eax", "call ebx",
             "mov ebx,eax", "mov eax,ebx", "mov ebp,esp", "mov esp,ebp",
             "push dword", "mov ebp,eax", "mov eax,ebp", "ret"} |->
        CASE mn = "push esi" -> <<\h56>>
          [] mn = "push eax" -> <<\h50>>
          [] mn = "push ebp" -> <<\h55>>
          [] mn = "push ebx" -> <<\h53>>
          [] mn = "pop esi" -> <<\h5E>>
          [] mn = "pop eax" -> <<\h58>>
          [] mn = "pop ebp" -> <<\h5D>>
          [] mn = "pop ebx" -> <<\h5B>>
          [] mn = "mov esi" -> <<\hBE>>
          [] mn = "mov eax" -> <<\hB8>>
          [] mn = "mov ebp" -> <<\hBD>>
          [] mn = "mov ebx" -> <<\hBB>>
          [] mn = "call ebp" -> <<\hFF, \hD5>>
          [] mn = "call eax" -> <<\hFF, \hD0>>
          [] mn = "call ebx" -> <<\hFF, \hD3>>
          [] mn = "mov ebx,eax" -> <<\h89, \hC3>>
          [] mn = "mov eax,ebx" -> <<\h89, \hD8>>
          [] mn = "mov ebp,esp" -> <<\h89, \hE5>>
          [] mn = "mov esp,ebp" -> <<\h89, \hEC>>
          [] mn = "push dword" -> <<\h68>>
          [] mn = "mov ebp,eax" -> <<\h89, \hC5>>
          [] mn = "mov eax,ebp" -> <<\h89, \hE8>>
          [] mn = "ret" -> <<\hC3>>]

Translations64 ==
    [mn \in {"push rsi", "push rax", "push rbp", "push rbx", "push rsp", "push rdi",
             "pop rsi", "pop rax", "pop rbp", "pop rbx", "pop rsp", "pop rdi",
             "mov rsi", "mov rax", "mov rbp", "mov rbx", "mov rdi", "mov rcx", "mov rdx",
             "call rbp", "call rax", "call rbx",
             "mov rbx,rax", "mov rax,rbx", "mov rbp,rsp", "mov rsp,rbp", "mov rcx,rbp",
             "mov rbp,rax", "mov rax,rbp", "mov rdi,rbp", "ret"} |->
        CASE mn = "push rsi" -> <<\h56>>
          [] mn = "push rax" -> <<\h50>>
          [] mn = "push rbp" -> <<\h55>>
          [] mn = "push rbx" -> <<\h53>>
          [] mn = "push rsp" -> <<\h54>>
          [] mn = "push rdi" -> <<\h57>>
          [] mn = "pop rsi" -> <<\h5E>>
          [] mn = "pop rax" -> <<\h58>>
          [] mn = "pop rbp" -> <<\h5D>>
          [] mn = "pop rbx" -> <<\h5B>>
          [] mn = "pop rsp" -> <<\h5C>>
          [] mn = "pop rdi" -> <<\h5F>>
          [] mn = "mov rsi" -> <<\h48, \hBE>>
          [] mn = "mov rax" -> <<\h48, \hB8>>
          [] mn = "mov rbp" -> <<\h48, \hBD>>
          [] mn = "mov rbx" -> <<\h48, \hBB>>
          [] mn = "mov rdi" -> <<\h48, \hBF>>
          [] mn = "mov rcx" -> <<\h48, \hB9>>
          [] mn = "mov rdx" -> <<\h48, \hBA>>
          [] mn = "call rbp" -> <<\hFF, \hD5>>
          [] mn = "call rax" -> <<\hFF, \hD0>>
          [] mn = "call rbx" -> <<\hFF, \hD3>>
          [] mn = "mov rbx,rax" -> <<\h48, \h89, \hC3>>
          [] mn = "mov rax,rbx" -> <<\h48, \h89, \hD8>>
          [] mn = "mov rbp,rsp" -> <<\h48, \h89, \hE5>>
          [] mn = "mov rsp,rbp" -> <<\h48, \h89, \hEC>>
          [] mn = "mov rcx,rbp" -> <<\h48, \h89, \hE9>>
          [] mn = "mov rbp,rax" -> <<\h48, \h89, \hC5>>
          [] mn = "mov rax,rbp" -> <<\h48, \h89, \hE8>>
          [] mn = "mov rdi,rbp" -> <<\h48, \h89, \hEF>>
          [] mn = "ret" -> <<\hC3>>]

\* GenShellCodeHelper(is_64): a helper is [is_64, code, err]; err is "" until a
\* statement raises, and a statement after a raise is not executed
NewHelper(is64) == [is_64 |-> is64, code |-> <<>>, err |-> ""]

Translations(h) == IF h.is_64 THEN Translations64 ELSE Translations32

\* a helper that looks mn up in one table holding both widths' mnemonics
EmitAnyWidth(h, mn) ==
    IF h.err # "" THEN h
    ELSE IF mn \notin DOMAIN Translations32 \cup DOMAIN Translations64
         THEN [h EXCEPT !.err = "KeyError"]
    ELSE [h EXCEPT !.code = Append(@, (Translations32 @@ Translations64)[mn])]

\* self._code.append(self.translate(mn)): a KeyError when mn is not in the table
Emit(h, mn) ==
    IF h.err # "" THEN h
    ELSE IF mn \notin DOMAIN Translations(h) THEN [h EXCEPT !.err = "KeyError"]
    ELSE [h EXCEPT !.code = Append(@, Translations(h)[mn])]

\* self._code.append(addr)
EmitBytes(h, bytes) ==
    IF h.err # "" THEN h ELSE [h EXCEPT !.code = Append(@, bytes)]

\* an argument helper.pack_address(...) is evaluated before the call it is
\* passed to: its struct.error is raised before the callee runs
Argument(h, packed) ==
    IF h.err # "" THEN h
    ELSE IF packed.err # "" THEN [h EXCEPT !.err = packed.err]
    ELSE h

push_addr(h, addr) == EmitBytes(Emit(h, "push dword"), addr)

push(h, register) == Emit(h, "push " \o register)

\* pop as a slip would write it: the format string of push copied unchanged
popAsPush(h, register) == Emit(h, "push " \o register)

pop(h, register) == Emit(h, "pop " \o register)

mov_to_register_addr(h, register, addr) == EmitBytes(Emit(h, "mov " \o register), addr)

mov_register_to_from(h, register_to, register_from) ==
    Emit(h, "mov " \o register_to \o "," \o register_from)

call(h, register) == Emit(h, "call " \o register)

preserve_stack(h) == mov_register_to_from(h, "ebp", "esp")

\* restore_stack with the operands of preserve_stack
restore_stackAsPreserve(h) == mov_register_to_from(h, "ebp", "esp")

restore_stack(h) == mov_register_to_from(h, "esp", "ebp")

ret(h) == Emit(h, "ret")

\* AutoExit(lambda: self.pop(register)), as push returns it
PopOnExit(register) == [fn |-> "pop", register |-> register]

\* AutoExit(lambda: self.restore_stack()), as preserve_stack returns it
RestoreStackOnExit == [fn |-> "restore_stack", register |-> ""]

\* self.on_exit()
on_exit(h, auto) == IF auto.fn = "pop" THEN pop(h, auto.register) ELSE restore_stack(h)

\* a scope whose on_exit runs only when the body completed: the plain call
\* after the body, with no __exit__
AutoExit_exitOnSuccessOnly(entered, done, auto) ==
    IF entered.err # "" \/ done.err # "" THEN done ELSE on_exit(done, auto)

\* the end of a with block.  entered is the helper after the call that was to
\* return the AutoExit, done the helper after the body.  When that call
\* raised there is no AutoExit and nothing runs; otherwise on_exit runs
\* whether or not the body raised, and since __exit__ returns None the body's
\* error goes on (unless on_exit raises one of its own)
AutoExit_exit(entered, done, auto) ==
    IF entered.err # "" THEN done
    ELSE LET left == on_exit([done EXCEPT !.err = ""], auto)
         IN  IF left.err # "" THEN left ELSE [left EXCEPT !.err = done.err]

RECURSIVE Join(_)
\* compat.b('').join(chunks)
Join(chunks) == IF chunks = <<>> THEN <<>> ELSE Head(chunks) \o Join(Tail(chunks))

get_code(h) == Join(h.code)

Reverse(seq) == [k \in DOMAIN seq |-> seq[Len(seq) + 1 - k]]

\* the two bytes of a 16-bit limb, low byte first
LimbBytes(l) == <<l % 256, l \div 256>>

\* the address packed most significant byte first
pack_addressBigEndian(is64, address) ==
    IF is64
    THEN [err |-> "",
          bytes |-> Reverse(LimbBytes(address[1]) \o LimbBytes(address[2])
                            \o LimbBytes(address[3]) \o LimbBytes(address[4]))]
    ELSE [err |-> "", bytes |-> Reverse(LimbBytes(address[1]) \o LimbBytes(address[2]))]

\* struct.pack('<q', address) for is_64, struct.pack('<L', address) otherwise:
\* 'q' is a signed 64-bit number and 'L' an unsigned 32-bit one, and a number
\* out of the format's range is a struct.error
pack_address(is64, address) ==
    IF is64
    THEN IF address[4] >= 32768
         THEN [err |-> "struct.error", bytes |-> <<>>]
         ELSE [err |-> "",
               bytes |-> LimbBytes(address[1]) \o LimbBytes(address[2])
                         \o LimbBytes(address[3]) \o LimbBytes(address[4])]
    ELSE IF address[3] # 0 \/ address[4] # 0
         THEN [err |-> "struct.error", bytes |-> <<>>]
         ELSE [err |-> "", bytes |-> LimbBytes(address[1]) \o LimbBytes(address[2])]

----------------------------------------------------------------------------
(* The trampoline of run_python_code_windows, lines 325-362 *)

BuildTrampoline(is64, codeAddr, resultAddr, attachFunc) ==
    LET helper == NewHelper(is64)
        pcode == pack_address(is64, codeAddr)
        presult == pack_address(is64, resultAddr)
        pattach == pack_address(is64, attachFunc)
        \* lines 336-345
        p1 == push(helper, "rdi")
        p2 == push(p1, "rsp")
        p3 == push(p2, "rbp")
        p4 == push(p3, "rbx")
        p5 == push(p4, "rdi")
        b1 == mov_to_register_addr(Argument(p5, pcode), "rcx", pcode.bytes)
        b2 == mov_to_register_addr(Argument(b1, presult), "rdx", presult.bytes)
        b3 == mov_to_register_addr(Argument(b2, pattach), "rbx", pattach.bytes)
        b4 == call(b3, "rbx")
        x5 == AutoExit_exit(p5, b4, PopOnExit("rdi"))
        x4 == AutoExit_exit(p4, x5, PopOnExit("rbx"))
        x3 == AutoExit_exit(p3, x4, PopOnExit("rbp"))
        x2 == AutoExit_exit(p2, x3, PopOnExit("rsp"))
        x1 == AutoExit_exit(p1, x2, PopOnExit("rdi"))
        \* lines 348-358
        q1 == push(helper, "eax")
        q2 == push(q1, "ebp")
        q3 == push(q2, "ebx")
        q4 == preserve_stack(q3)
        c1 == push_addr(Argument(q4, presult), presult.bytes)
        c2 == push_addr(Argument(c1, pcode), pcode.bytes)
        c3 == mov_to_register_addr(Argument(c2, pattach), "ebx", pattach.bytes)
        c4 == call(c3, "ebx")
        y4 == AutoExit_exit(q4, c4, RestoreStackOnExit)
        y3 == AutoExit_exit(q3, y4, PopOnExit("ebx"))
        y2 == AutoExit_exit(q2, y3, PopOnExit("ebp"))
        y1 == AutoExit_exit(q1, y2, PopOnExit("eax"))
    IN  ret(IF is64 THEN x1 ELSE y1)

----------------------------------------------------------------------------
(* What the target's processor makes of a code blob: the x86 / x86-64       *)
(* decoding of the instructions the helper can emit.  An instruction is    *)
(* [op, reg, src, imm]; registers are numbered as the processor numbers    *)
(* them (0 ax, 1 cx, 2 dx, 3 bx, 4 sp, 5 bp, 6 si, 7 di).                  *)

Instr(o, r, s, m) == [op |-> o, reg |-> r, src |-> s, imm |-> m]

\* the little-endian number in bytes[from .. from + n - 1], as four limbs
LimbsAt(bytes, from, n) ==
    [k \in 1..4 |->
        IF 2 * k <= n
        THEN bytes[from + 2 * k - 2] + 256 * bytes[from + 2 * k - 1]
        ELSE 0]

\* the instruction at bytes[p], and its length (0: not an instruction the
\* helper emits, or cut short)
DecodeAt(bytes, p, is64) ==
    LET b == bytes[p]
        has(n) == p + n - 1 <= Len(bytes)
        immLen == IF is64 THEN 8 ELSE 4
        bad == [ins |-> Instr("bad", 0, 0, NULL), len |-> 0]
        \* after an optional REX.W prefix, at position q
        movImm(q) ==
            IF q + immLen <= Len(bytes)
            THEN [ins |-> Instr("mov_imm", bytes[q] - 184, 0, LimbsAt(bytes, q + 1, immLen)),
                  len |-> q - p + 1 + immLen]
            ELSE bad
        movRR(q) ==
            IF q + 1 <= Len(bytes) /\ bytes[q + 1] \div 64 = 3
            THEN [ins |-> Instr("mov_rr", bytes[q + 1] % 8, (bytes[q + 1] \div 8) % 8, NULL),
                  len |-> q - p + 2]
            ELSE bad
    IN  IF b \in 80..87 THEN [ins |-> Instr("push", b - 80, 0, NULL), len |-> 1]
        ELSE IF b \in 88..95 THEN [ins |-> Instr("pop", b - 88, 0, NULL), len |-> 1]
        ELSE IF b = 195 THEN [ins |-> Instr("ret", 0, 0, NULL), len |-> 1]
        ELSE IF b = 255
        THEN IF has(2) /\ bytes[p + 1] \div 64 = 3 /\ (bytes[p + 1] \div 8) % 8 = 2
             THEN [ins |-> Instr("call", bytes[p + 1] % 8, 0, NULL), len |-> 2]
             ELSE bad
        ELSE IF is64
        THEN IF b = 72 /\ has(2)
             THEN IF bytes[p + 1] \in 184..191 THEN movImm(p + 1)
                  ELSE IF bytes[p + 1] = 137 THEN movRR(p + 1)
                  ELSE bad
             ELSE bad
        ELSE IF b \in 184..191 THEN movImm(p)
        ELSE IF b = 137 THEN movRR(p)
        ELSE IF b = 104
        THEN IF has(5)
             THEN [ins |-> Instr("push_imm", 0, 0, LimbsAt(bytes, p + 1, 4)), len |-> 5]
             ELSE bad
        ELSE bad

RECURSIVE DisasmFrom(_, _, _)
DisasmFrom(bytes, p, is64) ==
    IF p > Len(bytes) THEN <<>>
    ELSE LET d == DecodeAt(bytes, p, is64) IN
         IF d.len = 0 THEN <<d.ins>>
         ELSE <<d.ins>> \o DisasmFrom(bytes, p + d.len, is64)

Disasm(bytes, is64) == DisasmFrom(bytes, 1, is64)

----------------------------------------------------------------------------
(* The target process, as the driver sees it through winappdbg's Process   *)

\* what the cells of the target's memory hold
Uninit == [kind |-> "uninit", val |-> <<>>]
BytesCell(b) == [kind |-> "bytes", val |-> b]
IntCell(n) == [kind |-> "int", val |-> n]

\* a call made on the target (or on the operating system), as the trace keeps it
Event(o, a, success) == [op |-> o, arg |-> a, ok |-> success]

\* process.malloc: a region not in use
Fresh == HeapAddrs \ DOMAIN heap

Alloc(a, content) == [x \in DOMAIN heap \cup {a} |-> IF x = a THEN content ELSE heap[x]]

Release(a) == [x \in DOMAIN heap \ {a} |-> heap[x]]

\* what the helper entry point can leave in the result buffer
Statuses == {-1, 0, 1}

----------------------------------------------------------------------------
(* The drivers: the order of their statements *)

\* the driver with the helper DLL injected before the interpreter is probed
StepsWindowsInjectFirst ==
    <<"assert_quote", "Process", "inject_dll", "scan_modules", "resolve_gil",
      "resolve_attach", "malloc_code", "write_code", "malloc_result", "write_int",
      "build", "inject_code", "wait", "read_int", "free_injected", "free_code",
      "free_result", "return">>

\* the driver without line 384: the trampoline's memory is never freed
StepsWindowsLeakInjected ==
    <<"assert_quote", "Process", "resolve_gil", "inject_dll", "scan_modules",
      "resolve_attach", "malloc_code", "write_code", "malloc_result", "write_int",
      "build", "inject_code", "wait", "read_int", "free_code", "free_result", "return">>

\* the driver without line 302: no rescan after the helper DLL went in
StepsWindowsNoRescan ==
    <<"assert_quote", "Process", "resolve_gil", "inject_dll",
      "resolve_attach", "malloc_code", "write_code", "malloc_result", "write_int",
      "build", "inject_code", "wait", "read_int", "free_injected", "free_code",
      "free_result", "return">>

\* the driver freeing the code buffer as soon as the thread is started
StepsWindowsFreeEarly ==
    <<"assert_quote", "Process", "resolve_gil", "inject_dll", "scan_modules",
      "resolve_attach", "malloc_code", "write_code", "malloc_result", "write_int",
      "build", "inject_code", "free_code", "wait", "read_int", "free_injected",
      "free_result", "return">>

\* run_python_code_windows, lines 272-387
StepsWindows ==
    <<"assert_quote", "Process", "resolve_gil", "inject_dll", "scan_modules",
      "resolve_attach", "malloc_code", "write_code", "malloc_result", "write_int",
      "build", "inject_code", "wait", "read_int", "free_injected", "free_code",
      "free_result", "return">>

\* run_python_code_linux, lines 390-402
StepsLinux == <<"assert_quote", "gdb", "return">>

\* lines 405-408: run_python_code is bound by platform
Steps == IF platform = "win32" THEN StepsWindows ELSE StepsLinux

\* the statement after step
After(step) ==
    LET k == CHOOSE n \in DOMAIN Steps : Steps[n] = step
    IN  IF k = Len(Steps) THEN "done" ELSE Steps[k + 1]

Goto(step) == pc' = After(step) /\ outcome' = outcome

\* an exception leaves the driver: error is what propagates, at the statement
\* it left from, and lookup_error (resolve_label only) what the failed lookup
\* of that turn had raised
RaiseFrom(err, lookupErr) ==
    /\ pc' = "done"
    /\ outcome' = [kind |-> "raised", error |-> err, lookup_error |-> lookupErr,
                   at |-> pc, value |-> 0]

Raise(err) == RaiseFrom(err, "")

Log(events) == trace' = trace \o events

\* the precondition left out
NoQuoteUnchecked(src) == TRUE

\* lines 273 and 391: '\'' not in python_code
NoQuote(src) == \A k \in DOMAIN src : src[k] # "'"

\* lines 273-277 and 391
AssertQuote ==
    /\ pc = "assert_quote"
    /\ IF NoQuote(python_code) THEN Goto("assert_quote") ELSE Raise("AssertionError")
    /\ UNCHANGED <<inputs, locals, i, target, trace, unit>>

\* the width comparison left out
ArchitectureMatchesAlways(is64, py64) == TRUE

\* lines 283-286
ArchitectureMatches(is64, py64) == is64 = py64

\* lines 279-286: open the process, ask its width, compare with our own
OpenProcess ==
    /\ pc = "Process"
    /\ \/ /\ Log(<<Event("Process", NULL, FALSE)>>)
          /\ Raise("WindowsError")
          /\ UNCHANGED is_64
       \/ /\ Log(<<Event("Process", NULL, TRUE), Event("get_bits", NULL, TRUE)>>)
          /\ is_64' = (target_bits = 64)
          /\ IF ArchitectureMatches(is_64', python_64bit)
             THEN Goto("Process")
             ELSE Raise("RuntimeError: architecture")
    /\ UNCHANGED <<inputs, attach_func, code_address, return_code_address, startup_info,
                   helper_code, code, pInjectedMemory, return_code, i, target, unit>>

Label(step) == IF step = "resolve_gil" THEN "PyGILState_Ensure" ELSE "AttachAndRunPythonCode"

\* line 265
LastAttempt(n) == n = RETRIES - 1

\* lines 254-267, one turn of the loop: the lookup; when it fails the rescan,
\* then the raise or the sleep.  Python 2 keeps one current exception per
\* frame: a rescan that raises (and is caught by the inner except) replaces
\* the lookup's error, and the bare raise of line 266 re-raises whichever is
\* current.
ResolveLabel ==
    /\ pc \in {"resolve_gil", "resolve_attach"}
    /\ i < RETRIES
    /\ \E found \in {SymAddr(Label(pc)), NULL}, lookupRaises \in BOOLEAN, scanRaises \in BOOLEAN :
         LET lookup == Event("resolve_label", Label(pc), ~lookupRaises /\ Truthy(found))
             scan == Event("scan_modules", NULL, ~scanRaises)
             sleep == Event("sleep", SLEEP, TRUE)
             lookupError == IF lookupRaises THEN "WindowsError: resolve_label"
                            ELSE "AssertionError: address"
             current == IF scanRaises THEN "WindowsError: scan_modules" ELSE lookupError
         IN
         /\ lookupRaises => found = NULL
         /\ IF lookup.ok
            THEN /\ scanRaises = FALSE
                 /\ Log(<<lookup>>)
                 /\ attach_func' = IF pc = "resolve_attach" THEN found ELSE attach_func
                 /\ i' = 0
                 /\ Goto(pc)
            ELSE IF LastAttempt(i)
            THEN /\ Log(<<lookup, scan>>)
                 /\ RaiseFrom(current, lookupError)
                 /\ UNCHANGED <<attach_func, i>>
            ELSE /\ Log(<<lookup, scan, sleep>>)
                 /\ i' = i + 1
                 /\ UNCHANGED <<attach_func, pc, outcome>>
    /\ UNCHANGED <<inputs, is_64, code_address, return_code_address, startup_info,
                   helper_code, code, pInjectedMemory, return_code, target, unit>>

\* lines 292-300: the helper DLL must exist on disk, then it is injected
InjectDll ==
    /\ pc = "inject_dll"
    /\ \/ /\ Raise("RuntimeError: dll not found")
          /\ UNCHANGED trace
       \/ /\ Log(<<Event("inject_dll", NULL, FALSE)>>)
          /\ Raise("WindowsError")
       \/ /\ Log(<<Event("inject_dll", NULL, TRUE)>>)
          /\ Goto("inject_dll")
    /\ UNCHANGED <<inputs, locals, i, target, unit>>

\* line 302
ScanModules ==
    /\ pc = "scan_modules"
    /\ \/ /\ Log(<<Event("scan_modules", NULL, FALSE)>>)
          /\ Raise("WindowsError")
       \/ /\ Log(<<Event("scan_modules", NULL, TRUE)>>)
          /\ Goto("scan_modules")
    /\ UNCHANGED <<inputs, locals, i, target, unit>>

RECURSIVE BitOr(_, _)
\* a | b on non-negative integers
BitOr(a, b) ==
    IF a = 0 THEN b
    ELSE IF b = 0 THEN a
    ELSE (IF a % 2 = 1 \/ b % 2 = 1 THEN 1 ELSE 0) + 2 * BitOr(a \div 2, b \div 2)

\* the flags word with line 317 (startup_info |= SHOW_DEBUG_INFO) in effect
StartupInfoVerbose(tracing) ==
    BitOr(BitOr(0, SHOW_DEBUG_INFO), IF tracing THEN CONNECT_DEBUGGER ELSE 0)

\* lines 313-320: the flags word; the SHOW_DEBUG_INFO line is commented out
StartupInfo(tracing) == IF tracing THEN BitOr(0, CONNECT_DEBUGGER) ELSE 0

\* process.malloc(size) followed by the assert on its result
Malloc(step, size) ==
    \/ /\ Log(<<Event("malloc", NULL, FALSE)>>)
       /\ Raise("WindowsError")
       /\ UNCHANGED <<heap, code_address, return_code_address>>
    \/ /\ Log(<<Event("malloc", NULL, TRUE)>>)
       /\ Raise("AssertionError")
       /\ UNCHANGED <<heap, code_address, return_code_address>>
    \/ \E a \in Fresh :
          /\ Log(<<Event("malloc", a, TRUE)>>)
          /\ heap' = Alloc(a, Uninit)
          /\ code_address' = IF step = "malloc_code" THEN a ELSE code_address
          /\ return_code_address' = IF step = "malloc_result" THEN a ELSE return_code_address
          /\ Goto(step)

\* lines 306-307
MallocCode ==
    /\ pc = "malloc_code"
    /\ Malloc("malloc_code", Len(python_code))
    /\ UNCHANGED <<inputs, is_64, attach_func, startup_info, helper_code, code,
                   pInjectedMemory, return_code, i, thread, unit>>

\* lines 310-311
MallocResult ==
    /\ pc = "malloc_result"
    /\ Malloc("malloc_result", 4)
    /\ UNCHANGED <<inputs, is_64, attach_func, startup_info, helper_code, code,
                   pInjectedMemory, return_code, i, thread, unit>>

\* process.write / process.write_int: a write to memory the target does not
\* hold fails
Store(op, address, content, step) ==
    \/ /\ Log(<<Event(op, content.val, FALSE)>>)
       /\ Raise("WindowsError")
       /\ UNCHANGED heap
    \/ /\ address \in DOMAIN heap
       /\ Log(<<Event(op, content.val, TRUE)>>)
       /\ heap' = [heap EXCEPT ![address] = content]
       /\ Goto(step)

\* line 308
WriteCode ==
    /\ pc = "write_code"
    /\ Store("write", code_address, BytesCell(python_code), "write_code")
    /\ UNCHANGED <<inputs, locals, i, thread, unit>>

\* lines 313-323
WriteInt ==
    /\ pc = "write_int"
    /\ startup_info' = StartupInfo(connect_debugger_tracing)
    /\ Store("write_int", return_code_address, IntCell(startup_info'), "write_int")
    /\ UNCHANGED <<inputs, is_64, attach_func, code_address, return_code_address,
                   helper_code, code, pInjectedMemory, return_code, i, thread, unit>>

\* lines 325-362
Build ==
    /\ pc = "build"
    /\ LET h == BuildTrampoline(is_64, code_address, return_code_address, attach_func) IN
         IF h.err # ""
         THEN /\ Raise(h.err)
              /\ UNCHANGED <<helper_code, code>>
         ELSE /\ helper_code' = h.code
              /\ code' = get_code(h)
              /\ Goto("build")
    /\ UNCHANGED <<inputs, is_64, attach_func, code_address, return_code_address,
                   startup_info, pInjectedMemory, return_code, i, target, trace, unit>>

\* a driver that tries the injection again when it failed
InjectCodeRetrying ==
    /\ pc = "inject_code"
    /\ \/ /\ Log(<<Event("inject_code", NULL, FALSE)>>)
          /\ UNCHANGED <<pc, outcome, heap, thread, pInjectedMemory>>
       \/ \E a \in Fresh :
             /\ Log(<<Event("inject_code", a, TRUE)>>)
             /\ heap' = Alloc(a, BytesCell(code))
             /\ thread' = "running"
             /\ pInjectedMemory' = a
             /\ Goto("inject_code")
    /\ UNCHANGED <<inputs, is_64, attach_func, code_address, return_code_address,
                   startup_info, helper_code, code, return_code, i, unit>>

\* line 377, process.inject_code(code, 0): memory for the code is allocated in
\* the target, the code written to it and a thread started on it; when any of
\* that fails winappdbg releases the memory again and raises
InjectCode ==
    /\ pc = "inject_code"
    /\ \/ /\ Log(<<Event("inject_code", NULL, FALSE)>>)
          /\ Raise("WindowsError")
          /\ UNCHANGED <<heap, thread, pInjectedMemory>>
       \/ \E a \in Fresh :
             /\ Log(<<Event("inject_code", a, TRUE)>>)
             /\ heap' = Alloc(a, BytesCell(code))
             /\ thread' = "running"
             /\ pInjectedMemory' = a
             /\ Goto("inject_code")
    /\ UNCHANGED <<inputs, is_64, attach_func, code_address, return_code_address,
                   startup_info, helper_code, code, return_code, i, unit>>

\* the arguments the called function finds where the calling convention of the
\* width puts them: rcx and rdx, or the top of the stack and the word below it
CallArguments(ins, is64) ==
    LET upto == CHOOSE n \in DOMAIN ins : ins[n].op = "call"
        movs(r) == {n \in 1..upto : ins[n].op = "mov_imm" /\ ins[n].reg = r}
        pushes == {n \in 1..upto : ins[n].op = "push_imm"}
        last(S) == CHOOSE n \in S : \A m \in S : m <= n
    IN  IF is64
        THEN <<ins[last(movs(1))].imm, ins[last(movs(2))].imm>>
        ELSE <<ins[last(pushes)].imm, ins[last(pushes \ {last(pushes)})].imm>>

\* the injected thread: it runs the trampoline, whose call enters
\* AttachAndRunPythonCode(code buffer, result buffer); that leaves its status
\* in the result buffer, and the thread ends
ForeignThread ==
    /\ thread = "running"
    /\ pInjectedMemory \in DOMAIN heap
    /\ LET args == CallArguments(Disasm(heap[pInjectedMemory].val, is_64), is_64) IN
       \E status \in Statuses :
          /\ heap' = IF args[2] \in DOMAIN heap
                     THEN [heap EXCEPT ![args[2]] = IntCell(status)]
                     ELSE heap
          /\ Log(<<Event("thread_exit", status, TRUE)>>)
    /\ thread' = "terminated"
    /\ UNCHANGED <<inputs, pc, locals, i, outcome, unit>>

\* a wait that gives up at once, as a zero timeout would
WaitReturnsAtOnce(state) == TRUE

\* a wait that never comes back
WaitReturnsNever(state) == FALSE

\* thread.wait(None) returns once the thread has ended
WaitReturns(state) == state = "terminated"

\* lines 379-380
Wait ==
    /\ pc = "wait"
    /\ \/ /\ Log(<<Event("wait", NULL, FALSE)>>)
          /\ Raise("WindowsError")
       \/ /\ WaitReturns(thread)
          /\ Log(<<Event("wait", NULL, TRUE)>>)
          /\ Goto("wait")
    /\ UNCHANGED <<inputs, locals, i, target, unit>>

\* line 382
ReadInt ==
    /\ pc = "read_int"
    /\ \/ /\ Log(<<Event("read_int", NULL, FALSE)>>)
          /\ Raise("WindowsError")
          /\ UNCHANGED return_code
       \/ /\ return_code_address \in DOMAIN heap
          /\ heap[return_code_address].kind = "int"
          /\ Log(<<Event("read_int", return_code_address, TRUE)>>)
          /\ return_code' = heap[return_code_address].val
          /\ Goto("read_int")
    /\ UNCHANGED <<inputs, is_64, attach_func, code_address, return_code_address,
                   startup_info, helper_code, code, pInjectedMemory, i, target, unit>>

\* process.free(address)
Free(address, step) ==
    \/ /\ Log(<<Event("free", address, FALSE)>>)
       /\ Raise("WindowsError")
       /\ UNCHANGED heap
    \/ /\ address \in DOMAIN heap
       /\ Log(<<Event("free", address, TRUE)>>)
       /\ heap' = Release(address)
       /\ Goto(step)

\* line 384
FreeInjected ==
    /\ pc = "free_injected"
    /\ Free(pInjectedMemory, "free_injected")
    /\ UNCHANGED <<inputs, locals, i, thread, unit>>

\* line 385
FreeCode ==
    /\ pc = "free_code"
    /\ Free(code_address, "free_code")
    /\ UNCHANGED <<inputs, locals, i, thread, unit>>

\* line 386
FreeResult ==
    /\ pc = "free_result"
    /\ Free(return_code_address, "free_result")
    /\ UNCHANGED <<inputs, locals, i, thread, unit>>

\* lines 393-401: the gdb command line is run and its output collected
Gdb ==
    /\ pc = "gdb"
    /\ \/ /\ Log(<<Event("Popen", NULL, FALSE)>>)
          /\ Raise("OSError")
       \/ /\ Log(<<Event("Popen", NULL, TRUE)>>)
          /\ Goto("gdb")
    /\ UNCHANGED <<inputs, locals, i, target, unit>>

\* a driver that turns a status other than zero into an error
ReturnChecked ==
    /\ pc = "return"
    /\ IF platform = "win32" /\ return_code # 0
       THEN Raise("RuntimeError")
       ELSE /\ pc' = "done"
            /\ outcome' = [kind |-> "returned", error |-> "", lookup_error |-> "",
                           at |-> pc, value |-> 0]
    /\ UNCHANGED <<inputs, locals, i, target, trace, unit>>

\* lines 387 and 402
Return ==
    /\ pc = "return"
    /\ pc' = "done"
    /\ outcome' = [kind |-> "returned", error |-> "", lookup_error |-> "", at |-> pc,
                   value |-> IF platform = "win32" THEN return_code ELSE 0]
    /\ UNCHANGED <<inputs, locals, i, target, trace, unit>>

----------------------------------------------------------------------------
(* The driver call as a state machine *)

RECURSIVE Sources(_)
\* the source fragments tried: every string of at most n of these characters
Sources(n) ==
    IF n = 0 THEN {<<>>}
    ELSE Sources(n - 1) \cup {Append(s, c) : s \in Sources(n - 1), c \in {"p", "'"}}

NoOutcome == [kind |-> "none", error |-> "", lookup_error |-> "", at |-> "", value |-> 0]

PkIdle == [state |-> "idle", is_64 |-> FALSE, address |-> NULL, err |-> "", bytes |-> <<>>]

Init ==
    /\ platform \in {"win32", "linux"}
    /\ python_code \in Sources(MaxCodeLen)
    /\ connect_debugger_tracing \in BOOLEAN
    /\ target_bits \in {32, 64}
    /\ python_64bit \in BOOLEAN
    /\ pc = "assert_quote"
    /\ is_64 = FALSE
    /\ attach_func = NULL
    /\ code_address = NULL
    /\ return_code_address = NULL
    /\ startup_info = 0
    /\ helper_code = <<>>
    /\ code = <<>>
    /\ pInjectedMemory = NULL
    /\ return_code = 0
    /\ i = 0
    /\ heap = <<>>
    /\ thread = "none"
    /\ trace = <<>>
    /\ outcome = NoOutcome
    /\ pk = PkIdle
    /\ scopes = <<>>

Next ==
    \/ AssertQuote
    \/ OpenProcess
    \/ ResolveLabel
    \/ InjectDll
    \/ ScanModules
    \/ MallocCode
    \/ WriteCode
    \/ MallocResult
    \/ WriteInt
    \/ Build
    \/ InjectCode
    \/ ForeignThread
    \/ Wait
    \/ ReadInt
    \/ FreeInjected
    \/ FreeCode
    \/ FreeResult
    \/ Gdb
    \/ Return

Spec == Init /\ [][Next]_vars

\* the statements of the driver from thread.wait on
FromWait == Wait \/ ReadInt \/ FreeInjected \/ FreeCode \/ FreeResult \/ Return

\* one of them, made without raising
Progress == FromWait /\ outcome'.kind # "raised"

\* the driver is a running program: from the wait on, a statement that can
\* complete without an error does complete in the end.  Whether a call on
\* the target fails, and whether the foreign thread ever ends, stay open.
\* (The tracing flag only changes the flags word written by write_int, so
\* the runs are followed for one value of it.)
InitLive == Init /\ connect_debugger_tracing = FALSE

SpecLive == InitLive /\ [][Next]_vars /\ WF_vars(Progress)

----------------------------------------------------------------------------
(* pack_address on its own: every address of the limb values below, under  *)
(* both widths                                                             *)

LimbValues == {0, 1, 255, 256, 32767, 32768, 65535}

PackAddresses == [1..4 -> LimbValues]

InitPack ==
    /\ platform = "win32"
    /\ python_code = <<>>
    /\ connect_debugger_tracing = FALSE
    /\ target_bits = 32
    /\ python_64bit = FALSE
    /\ pc = "done"
    /\ is_64 = FALSE
    /\ attach_func = NULL
    /\ code_address = NULL
    /\ return_code_address = NULL
    /\ startup_info = 0
    /\ helper_code = <<>>
    /\ code = <<>>
    /\ pInjectedMemory = NULL
    /\ return_code = 0
    /\ i = 0
    /\ heap = <<>>
    /\ thread = "none"
    /\ trace = <<>>
    /\ outcome = NoOutcome
    /\ scopes = <<>>
    /\ \E w \in BOOLEAN, a \in PackAddresses :
          pk = [state |-> "call", is_64 |-> w, address |-> a, err |-> "", bytes |-> <<>>]

\* helper.pack_address(address) is called and returns or raises
PackAddress ==
    /\ pk.state = "call"
    /\ LET r == pack_address(pk.is_64, pk.address) IN
          pk' = [pk EXCEPT !.state = "done", !.err = r.err, !.bytes = r.bytes]
    /\ UNCHANGED <<inputs, pc, locals, i, target, trace, outcome, scopes>>

NextPack == PackAddress

SpecPack == InitPack /\ [][NextPack]_vars

----------------------------------------------------------------------------
(* Reading the trace *)

\* positions of the calls of operation o, and of those that succeeded
Calls(o) == {k \in DOMAIN trace : trace[k].op = o}

Succeeded(o) == {k \in Calls(o) : trace[k].ok}

\* positions where the driver obtained a region of the target's memory
Obtained ==
    {k \in Succeeded("malloc") : Truthy(trace[k].arg)} \cup Succeeded("inject_code")

\* positions of the successful frees of the region obtained at position k
FreesOf(k) == {j \in Succeeded("free") : j > k /\ trace[j].arg = trace[k].arg}

Windows == platform = "win32"

HasQuote == \E k \in DOMAIN python_code : python_code[k] = "'"

Ended == outcome.kind # "none"

Raised == outcome.kind = "raised"

Returned == outcome.kind = "returned"

----------------------------------------------------------------------------
(* C1 *)

\* C1 (as claimed): whenever run_python_code_windows has returned or raised,
\* every region of the target's memory it obtained during the call (code
\* buffer, result buffer, trampoline memory) has been freed.
C1_FreedOnEveryExit ==
    (Windows /\ Ended) =>
        /\ \A k \in Obtained : FreesOf(k) # {}
        /\ DOMAIN heap = {}

----------------------------------------------------------------------------
(* C2 *)

\* C2: once get_bits has answered a width whose 64-bit-ness differs from
\* is_python_64bit(), the call has raised the architecture error and the trace
\* holds no malloc, no symbol lookup, no DLL injection and no code injection.
C2_MismatchRaisesBeforeAnything ==
    (Windows /\ Calls("get_bits") # {} /\ (target_bits = 64) # python_64bit) =>
        /\ Raised
        /\ outcome.error = "RuntimeError: architecture"
        /\ Calls("malloc") = {}
        /\ Calls("resolve_label") = {}
        /\ Calls("inject_dll") = {}
        /\ Calls("inject_code") = {}
        /\ DOMAIN heap = {}
        /\ thread = "none"

\* the architecture error has been raised
C2_Witness ==
    /\ Raised
    /\ outcome.error = "RuntimeError: architecture"
    /\ target_bits = 32
    /\ python_64bit

----------------------------------------------------------------------------
(* C3 *)

----------------------------------------------------------------------------
(* C4 *)

\* lookups of a label made so far, and the failed ones
Lookups(label) == {k \in Calls("resolve_label") : trace[k].arg = label}

FailedLookups(label) == {k \in Lookups(label) : ~trace[k].ok}

ResolveSteps == {"resolve_gil", "resolve_attach"}

\* C4 (as claimed): resolve_label looks a label up at most three times; a
\* successful lookup is the last one (its address is what is returned, after
\* zero, one or two swallowed failures); it raises only after three failed
\* lookups, and then the error raised is the error of the third lookup.
C4_ResolveLabelRaisesLookupError ==
    \A step \in ResolveSteps :
        /\ Cardinality(Lookups(Label(step))) <= 3
        /\ \A k \in Lookups(Label(step)) :
              trace[k].ok => \A j \in Lookups(Label(step)) : j <= k
        /\ (Raised /\ outcome.at = step) =>
              /\ Cardinality(FailedLookups(Label(step))) = 3
              /\ outcome.error = outcome.lookup_error
    /\ attach_func \in {NULL, SymAddr("AttachAndRunPythonCode")}

----------------------------------------------------------------------------
(* C5 *)

\* C5: three failed lookups of a label make the call raise from resolve_label,
\* and then no memory has been allocated in the target and no thread injected;
\* when the label is PyGILState_Ensure the helper DLL has not been injected.
C5_ExhaustedResolutionTouchesNothing ==
    \A step \in ResolveSteps :
        (Windows /\ Cardinality(FailedLookups(Label(step))) >= 3) =>
            /\ Raised
            /\ outcome.at = step
            /\ Calls("malloc") = {}
            /\ Calls("inject_code") = {}
            /\ DOMAIN heap = {}
            /\ thread = "none"
            /\ (step = "resolve_gil" => Calls("inject_dll") = {})

\* the entry point could not be resolved in three lookups
C5_Witness ==
    /\ Cardinality(FailedLookups("AttachAndRunPythonCode")) = 3
    /\ Raised
    /\ outcome.at = "resolve_attach"

----------------------------------------------------------------------------
(* C6 *)

\* C6: a successful write of the source to the code buffer and a successful
\* write_int to the result buffer precede every inject_code call, so that the
\* foreign thread starts with both buffers written; and every read_int follows
\* a wait that returned, which itself follows the end of the foreign thread.
C6_WritesBeforeThreadReadAfterExit ==
    /\ \A k \in Calls("inject_code") :
          /\ \E w \in Succeeded("write") : w < k /\ trace[w].arg = python_code
          /\ \E w \in Succeeded("write_int") : w < k
    /\ (thread = "running") =>
          /\ code_address \in DOMAIN heap
          /\ return_code_address \in DOMAIN heap
          /\ heap[code_address] = BytesCell(python_code)
          /\ heap[return_code_address].kind = "int"
    /\ \A k \in Calls("read_int") :
          \E w \in Succeeded("wait") :
             /\ w < k
             /\ \E x \in Calls("thread_exit") : x < w

\* the result buffer has been read back
C6_Witness ==
    /\ Succeeded("read_int") # {}
    /\ thread = "terminated"

----------------------------------------------------------------------------
(* C7 *)

\* C7: when run_python_code_windows returns (every foreign operation having
\* succeeded), it obtained exactly three distinct regions, each was freed
\* exactly once, nothing else was freed and nothing is left allocated.
C7_ThreeRegionsFreedOnce ==
    (Windows /\ Returned) =>
        /\ Cardinality(Obtained) = 3
        /\ Cardinality({trace[k].arg : k \in Obtained}) = 3
        /\ \A k \in Obtained : Cardinality(FreesOf(k)) = 1
        /\ Cardinality(Calls("free")) = 3
        /\ DOMAIN heap = {}

\* a call that returned a status
C7_Witness ==
    /\ Windows
    /\ Returned
    /\ Cardinality(Succeeded("free")) = 3

----------------------------------------------------------------------------
(* C8 *)

\* the registers of the instructions of kind o, in the order they appear
RegistersOf(ins, o) ==
    LET sel == SelectSeq(ins, LAMBDA x : x.op = o)
    IN  [k \in DOMAIN sel |-> sel[k].reg]

Positions(ins, o) == {k \in DOMAIN ins : ins[k].op = o}

\* C8: in the trampoline the driver built and is about to inject (code does
\* not change afterwards), for either width, the registers popped are exactly
\* the registers pushed, in reverse order; every push comes before the call
\* and every pop after it.
C8_PushPopNested ==
    (pc = "inject_code") =>
        LET ins == Disasm(code, is_64) IN
        /\ Positions(ins, "bad") = {}
        /\ RegistersOf(ins, "push") # <<>>
        /\ RegistersOf(ins, "pop") = Reverse(RegistersOf(ins, "push"))
        /\ Cardinality(Positions(ins, "call")) = 1
        /\ \A c \in Positions(ins, "call") :
              /\ \A k \in Positions(ins, "push") : k < c
              /\ \A k \in Positions(ins, "pop") : k > c

\* the 64-bit trampoline: rdi, rsp, rbp, rbx, rdi are pushed
C8_Witness ==
    /\ pc = "inject_code"
    /\ is_64
    /\ RegistersOf(Disasm(code, is_64), "push") = <<7, 4, 5, 3, 7>>

\* the 32-bit trampoline: eax, ebp, ebx are pushed
C8_Witness32 ==
    /\ pc = "inject_code"
    /\ ~is_64
    /\ RegistersOf(Disasm(code, is_64), "push") = <<0, 5, 3>>

----------------------------------------------------------------------------
(* C9 *)

\* the addresses of a width: below 2^32, or below 2^64
Representable(is64, address) == is64 \/ (address[3] = 0 /\ address[4] = 0)

\* C9 (as claimed): for every address representable in the width,
\* pack_address gives 4 (32-bit) or 8 (64-bit) bytes which, read as a
\* little-endian number of that width, are the address.
C9_PackAddressRoundTrip ==
    (pk.state = "done" /\ Representable(pk.is_64, pk.address)) =>
        /\ pk.err = ""
        /\ Len(pk.bytes) = IF pk.is_64 THEN 8 ELSE 4
        /\ LimbsAt(pk.bytes, 1, Len(pk.bytes)) = pk.address

----------------------------------------------------------------------------
(* C10 *)

\* C10: every write_int writes the flags word, which is 2 when
\* connect_debugger_tracing is true and 0 when it is false, so never has the
\* verbose flag (1) set; and that is what the result buffer holds when the
\* foreign thread starts.
C10_FlagsWord ==
    LET flags == IF connect_debugger_tracing THEN 2 ELSE 0 IN
    /\ \A k \in Calls("write_int") :
          /\ trace[k].arg = flags
          /\ trace[k].arg % 2 = 0
    /\ (thread = "running" /\ return_code_address \in DOMAIN heap) =>
          heap[return_code_address] = IntCell(flags)

\* the thread starts with tracing requested
C10_Witness ==
    /\ connect_debugger_tracing
    /\ thread = "running"
    /\ Succeeded("write_int") # {}

----------------------------------------------------------------------------
(* The builder on its own: a helper of either width receives calls of its  *)
(* seven appending methods, with the register names of both widths; the    *)
(* caller catches what a call raises and goes on with the same helper      *)

MaxCalls == 2

\* register names handed to the methods: of the 32-bit table, of the 64-bit
\* table, and one (esp) that no push, pop or call of either table has
RegisterNames == {"eax", "ebp", "esp", "rax", "rbp"}

\* the operand of a 'mov reg, imm' or a 'push imm': a packed heap address
Operand(is64) == pack_address(is64, HeapAddr(1)).bytes

InitEncoder ==
    /\ platform = "win32"
    /\ python_code = <<>>
    /\ connect_debugger_tracing = FALSE
    /\ target_bits = 32
    /\ python_64bit = FALSE
    /\ pc = "helper"
    /\ is_64 \in BOOLEAN
    /\ attach_func = NULL
    /\ code_address = NULL
    /\ return_code_address = NULL
    /\ startup_info = 0
    /\ helper_code = <<>>
    /\ code = <<>>
    /\ pInjectedMemory = NULL
    /\ return_code = 0
    /\ i = 0
    /\ heap = <<>>
    /\ thread = "none"
    /\ trace = <<>>
    /\ outcome = NoOutcome
    /\ pk = PkIdle
    /\ scopes = <<>>

\* the helper as the variables hold it, before a call
Helper == [is_64 |-> is_64, code |-> helper_code, err |-> ""]

\* a call of method fn, which looks mn up, has left the helper as after
Called(fn, mn, after) ==
    /\ pc = "helper"
    /\ Len(trace) < MaxCalls
    /\ helper_code' = after.code
    /\ outcome' = IF after.err = "" THEN NoOutcome
                  ELSE [NoOutcome EXCEPT !.kind = "raised", !.error = after.err, !.at = pc]
    /\ Log(<<Event(fn, mn, after.err = "")>>)
    /\ UNCHANGED <<inputs, pc, is_64, attach_func, code_address, return_code_address,
                   startup_info, code, pInjectedMemory, return_code, i, target, unit>>

CallPush ==
    \E r \in RegisterNames : Called("push", "push " \o r, push(Helper, r))

CallPop ==
    \E r \in RegisterNames : Called("pop", "pop " \o r, pop(Helper, r))

CallMovToRegisterAddr ==
    \E r \in RegisterNames :
        Called("mov_to_register_addr", "mov " \o r,
               mov_to_register_addr(Helper, r, Operand(is_64)))

CallMovRegisterToFrom ==
    \E r \in RegisterNames : \E f \in RegisterNames \ {r} :
        Called("mov_register_to_from", "mov " \o r \o "," \o f,
               mov_register_to_from(Helper, r, f))

CallCall ==
    \E r \in RegisterNames : Called("call", "call " \o r, call(Helper, r))

CallPushAddr == Called("push_addr", "push dword", push_addr(Helper, Operand(is_64)))

CallPreserveStack == Called("preserve_stack", "mov ebp,esp", preserve_stack(Helper))

NextEncoder ==
    \/ CallPush
    \/ CallPop
    \/ CallMovToRegisterAddr
    \/ CallMovRegisterToFrom
    \/ CallCall
    \/ CallPushAddr
    \/ CallPreserveStack

SpecEncoder == InitEncoder /\ [][NextEncoder]_vars

\* the general-purpose register names of each width
Registers32 == {"eax", "ecx", "edx", "ebx", "esp", "ebp", "esi", "edi"}

Registers64 == {"rax", "rcx", "rdx", "rbx", "rsp", "rbp", "rsi", "rdi"}

\* every mnemonic a method can form from the register names in R
MnemonicsOver(R) ==
    {"push dword", "ret"}
    \cup {"push " \o r : r \in R} \cup {"pop " \o r : r \in R}
    \cup {"mov " \o r : r \in R} \cup {"call " \o r : r \in R}
    \cup {"mov " \o r \o "," \o f : r \in R, f \in R}

\* the last call made on the helper
LastCall == trace[Len(trace)]

\* C11: a call of push, pop, mov_to_register_addr, mov_register_to_from,
\* call, push_addr or preserve_stack whose mnemonic is not in the table of
\* the helper's width (be it in the other width's table or in none) raises
\* KeyError and leaves the chunks appended so far exactly as they were; and
\* each table holds only mnemonics over the register names of its own width
C11_UnknownMnemonicAppendsNothing ==
    /\ [](/\ DOMAIN Translations32 \subseteq MnemonicsOver(Registers32)
          /\ DOMAIN Translations64 \subseteq MnemonicsOver(Registers64)
          /\ Registers32 \cap Registers64 = {})
    /\ [][trace' # trace =>
            LET done == trace'[Len(trace')] IN
            done.arg \notin DOMAIN Translations(Helper) =>
                /\ ~done.ok
                /\ outcome'.kind = "raised"
                /\ outcome'.error = "KeyError"
                /\ helper_code' = helper_code]_vars

\* after chunks were appended, a call with a mnemonic only the other width's
\* table has was refused
C11_Witness ==
    /\ pc = "helper"
    /\ Len(trace) = 2
    /\ helper_code # <<>>
    /\ ~LastCall.ok
    /\ LastCall.arg \in DOMAIN Translations([Helper EXCEPT !.is_64 = ~is_64])

----------------------------------------------------------------------------
(* C12 *)

\* the steps of run_python_code_windows after thread.wait
AfterWait == {"read_int", "free_injected", "free_code", "free_result", "return"}

\* C12: on Windows the value returned is the integer the helper left in the
\* result buffer when the foreign thread ended, be it zero, positive or
\* negative, and by then the trampoline, the code buffer and the result
\* buffer have been freed; an error raised after the wait comes from a failed
\* read_int or free, never from the status
C12_StatusReturnedAsIs ==
    /\ (Windows /\ Returned) =>
          \E x \in Calls("thread_exit") :
             /\ \A y \in Calls("thread_exit") : y = x
             /\ outcome.value = trace[x].arg
             /\ Cardinality({k \in Succeeded("free") : k > x}) = 3
             /\ {trace[k].arg : k \in Succeeded("free")}
                   = {pInjectedMemory, code_address, return_code_address}
    /\ (Windows /\ Raised /\ outcome.at \in AfterWait) =>
          /\ outcome.at # "return"
          /\ \E k \in Calls("read_int") \cup Calls("free") : ~trace[k].ok /\ k = Len(trace)

\* a negative status came back as the return value
C12_Witness == Windows /\ Returned /\ outcome.value < 0 /\ Cardinality(Succeeded("free")) = 3

\* a positive status came back as the return value
C12_WitnessPositive == Windows /\ Returned /\ outcome.value > 0

----------------------------------------------------------------------------
(* C13 *)

\* position k holds a rescan resolve_label made: it follows a lookup at once
RetryScan(k) == trace[k].op = "scan_modules" /\ k > 1 /\ trace[k - 1].op = "resolve_label"

RetryScans == {k \in DOMAIN trace : RetryScan(k)}

\* how many times run_python_code_windows has a call of o in its text,
\* resolve_label and its rescans apart
CallSites(o) ==
    CASE o = "malloc" -> 2
      [] o = "free" -> 3
      [] OTHER -> 1

\* the calls resolve_label repeats: the lookup, its rescan and the sleep
Retried(k) == trace[k].op \in {"resolve_label", "sleep"} \/ RetryScan(k)

\* the calls the last step of the driver can have made: no step makes more
\* than three (a failed lookup, its rescan and the sleep), and every step's
\* calls are the last ones of some reachable trace, so what is stated of
\* these positions is stated of every call
Recent == {m \in DOMAIN trace : m > Len(trace) - 3}

\* C13: in one run of run_python_code_windows inject_code is called at most
\* once and inject_dll at most once, whatever fails; no other call on the
\* target is made more often than the driver's text has it, and a call that
\* failed is never followed by another call: only the lookup of resolve_label
\* (with the rescan and the sleep that go with it) is tried again.  It is
\* stated of the last call of a trace: the calls of every step of the driver
\* but resolve_label's, and the calls of OpenProcess (which come in pairs),
\* end the trace of some reachable state
C13_OnlyLookupRepeated ==
    (Windows /\ trace # <<>>) =>
       /\ LastCall.op \in {"inject_code", "inject_dll"} =>
             Cardinality(Calls(LastCall.op)) = 1
       /\ (LastCall.op # "thread_exit" /\ ~Retried(Len(trace))) =>
             /\ Cardinality({k \in Calls(LastCall.op) : ~RetryScan(k)})
                   <= CallSites(LastCall.op)
             /\ \A k \in 1..(Len(trace) - 1) : trace[k].ok \/ Retried(k)

\* a lookup was repeated, and later the one injection of the run failed
C13_Witness ==
    /\ Windows
    /\ Raised
    /\ outcome.at = "inject_code"
    /\ Cardinality(Lookups("PyGILState_Ensure")) = 3
    /\ Cardinality(Calls("inject_code")) = 1

----------------------------------------------------------------------------
(* C14 *)

\* positions before m where a call of o succeeded
Earlier(o, m) == {j \in Succeeded(o) : j < m}

\* positions of the rescan of line 302: a successful rescan right after the
\* injection of the helper DLL
RescansAfterInjection ==
    {j \in Succeeded("scan_modules") : j > 1 /\ trace[j - 1].op = "inject_dll"}

\* C14: the steps before the first allocation come in one order.  A lookup of
\* 'PyGILState_Ensure' is made only after get_bits answered and the widths
\* were found equal, and before any injection; inject_dll is called only
\* after a lookup of 'PyGILState_Ensure' succeeded; the call after a
\* successful inject_dll is scan_modules; 'AttachAndRunPythonCode' is looked
\* up only after that rescan succeeded; and malloc is called, and memory of
\* the target held, only once 'AttachAndRunPythonCode' resolved to an address
\* other than zero
C14_PreAllocationOrder ==
    /\ (heap # <<>> \/ thread # "none") => Truthy(attach_func)
    /\ Windows =>
          \A m \in Recent :
             LET gil == {j \in Earlier("resolve_label", m) :
                            trace[j].arg = "PyGILState_Ensure"}
                 attach == {j \in Earlier("resolve_label", m) :
                               trace[j].arg = "AttachAndRunPythonCode"}
             IN  /\ trace[m].op = "resolve_label" =>
                       /\ Earlier("get_bits", m) # {}
                       /\ python_64bit = is_64
                       /\ trace[m].arg = "PyGILState_Ensure" =>
                             \A j \in Calls("inject_dll") : m < j
                       /\ trace[m].arg = "AttachAndRunPythonCode" =>
                             \E j \in RescansAfterInjection : j < m
                 /\ trace[m].op = "inject_dll" => gil # {} /\ attach = {}
                 /\ (m > 1 /\ trace[m - 1].op = "inject_dll") =>
                       trace[m - 1].ok /\ trace[m].op = "scan_modules"
                 /\ trace[m].op = "malloc" =>
                       /\ attach # {}
                       /\ attach_func = SymAddr("AttachAndRunPythonCode")
                       /\ \A j \in gil : \A n \in attach : j < n

\* the entry point resolved at the second try, and the first buffer is there
C14_Witness ==
    /\ Windows
    /\ Cardinality(Lookups("AttachAndRunPythonCode")) = 2
    /\ Cardinality(Succeeded("malloc")) = 1
    /\ LastCall.op = "malloc"
    /\ heap # <<>>

----------------------------------------------------------------------------
(* What the target's processor does with a decoded trampoline: the         *)
(* registers and the stack, followed symbolically.  A value is what a      *)
(* register held on entry, an immediate, a stack pointer (as the number of *)
(* words the stack then held above the entry level) or what a called       *)
(* function left in a register it need not preserve.                       *)

Entry(r) == [kind |-> "entry", reg |-> r, imm |-> NULL, depth |-> 0]

Imm(a) == [kind |-> "imm", reg |-> 0, imm |-> a, depth |-> 0]

StackPtr(d) == [kind |-> "sp", reg |-> 0, imm |-> NULL, depth |-> d]

Clobbered == [kind |-> "clobbered", reg |-> 0, imm |-> NULL, depth |-> 0]

\* the machine on entry: nothing pushed, no call made
Machine ==
    [regs |-> [r \in 0..7 |-> Entry(r)], stack |-> <<>>, fault |-> FALSE,
     called |-> FALSE, target |-> Clobbered,
     call_regs |-> [r \in 0..7 |-> Entry(r)], call_stack |-> <<>>]

\* the registers a called function may change: ax, cx, dx
Volatile == {0, 1, 2}

\* the stack pointer is set to v: the words above that level are given up
SetStackPtr(m, v) ==
    IF v.kind = "sp" /\ v.depth <= Len(m.stack)
    THEN [m EXCEPT !.stack = SubSeq(@, 1, v.depth)]
    ELSE [m EXCEPT !.fault = TRUE]

\* one instruction; the function called removes cleanup words of arguments
\* from the stack before it returns (none under cdecl and on x86-64, its
\* arguments under stdcall) and preserves the non-volatile registers
Execute(m, x, cleanup) ==
    IF m.fault THEN m
    ELSE CASE x.op = "push" ->
                [m EXCEPT !.stack = Append(@, IF x.reg = 4 THEN StackPtr(Len(m.stack))
                                              ELSE m.regs[x.reg])]
           [] x.op = "push_imm" -> [m EXCEPT !.stack = Append(@, Imm(x.imm))]
           [] x.op = "pop" ->
                IF m.stack = <<>> THEN [m EXCEPT !.fault = TRUE]
                ELSE IF x.reg = 4 THEN SetStackPtr(m, m.stack[Len(m.stack)])
                ELSE [m EXCEPT !.regs[x.reg] = m.stack[Len(m.stack)],
                               !.stack = SubSeq(@, 1, Len(@) - 1)]
           [] x.op = "mov_imm" -> [m EXCEPT !.regs[x.reg] = Imm(x.imm)]
           [] x.op = "mov_rr" ->
                LET v == IF x.src = 4 THEN StackPtr(Len(m.stack)) ELSE m.regs[x.src]
                IN  IF x.reg = 4 THEN SetStackPtr(m, v)
                    ELSE [m EXCEPT !.regs[x.reg] = v]
           [] x.op = "call" ->
                IF cleanup > Len(m.stack) THEN [m EXCEPT !.fault = TRUE]
                ELSE [m EXCEPT !.called = TRUE,
                               !.target = m.regs[x.reg],
                               !.call_regs = m.regs,
                               !.call_stack = m.stack,
                               !.stack = SubSeq(@, 1, Len(@) - cleanup),
                               !.regs = [r \in 0..7 |->
                                            IF r \in Volatile THEN Clobbered ELSE @[r]]]
           [] x.op = "ret" -> m
           [] OTHER -> [m EXCEPT !.fault = TRUE]

RECURSIVE ExecuteFrom(_, _, _)
\* the instructions of ins in turn, up to the first ret
ExecuteFrom(m, ins, cleanup) ==
    IF ins = <<>> \/ Head(ins).op = "ret" THEN m
    ELSE ExecuteFrom(Execute(m, Head(ins), cleanup), Tail(ins), cleanup)

\* the machine when the trampoline reaches its ret
AtRet(ins, cleanup) == ExecuteFrom(Machine, ins, cleanup)

----------------------------------------------------------------------------
(* C15 *)

\* the immediates pushed, in order
PushedImmediates(ins) ==
    LET sel == SelectSeq(ins, LAMBDA x : x.op = "push_imm")
    IN  [k \in DOMAIN sel |-> sel[k].imm]

\* C15: the trampoline the driver is about to inject has one call.  When the
\* processor reaches it, the register called through holds the address
\* 'AttachAndRunPythonCode' resolved to; on 64-bit that register is rbx, rcx
\* holds the address of the code buffer and rdx that of the result buffer; on
\* 32-bit that register is ebx, the result buffer's address was pushed first
\* and the code buffer's second, so the code buffer's address is on top of the
\* stack and the result buffer's below it.  The trampoline has exactly one
\* ret, its last instruction, and every pop and 'mov esp,ebp' is before it.
C15_CallArguments ==
    (pc = "inject_code") =>
        LET ins == Disasm(code, is_64)
            m == AtRet(ins, 0)
            top == Len(m.call_stack)
        IN  /\ Cardinality(Positions(ins, "call")) = 1
            /\ ~m.fault
            /\ m.called
            /\ Truthy(attach_func)
            /\ m.target = Imm(attach_func)
            /\ \A c \in Positions(ins, "call") : ins[c].reg = 3
            /\ is_64 =>
                  /\ m.call_regs[1] = Imm(code_address)
                  /\ m.call_regs[2] = Imm(return_code_address)
                  /\ PushedImmediates(ins) = <<>>
            /\ ~is_64 =>
                  /\ PushedImmediates(ins) = <<return_code_address, code_address>>
                  /\ top >= 2
                  /\ m.call_stack[top] = Imm(code_address)
                  /\ m.call_stack[top - 1] = Imm(return_code_address)
            /\ Positions(ins, "ret") = {Len(ins)}
            /\ \A k \in Positions(ins, "pop") \cup Positions(ins, "mov_rr") : k < Len(ins)
            /\ ins[Len(ins) - 1].op = "pop"

\* a 64-bit trampoline was built for two distinct buffers
C15_Witness ==
    /\ pc = "inject_code"
    /\ is_64
    /\ code_address # return_code_address
    /\ AtRet(Disasm(code, is_64), 0).call_regs[1] = Imm(code_address)

\* a 32-bit trampoline was built for two distinct buffers
C15_Witness32 ==
    /\ pc = "inject_code"
    /\ ~is_64
    /\ code_address # return_code_address
    /\ Len(PushedImmediates(Disasm(code, is_64))) = 2

----------------------------------------------------------------------------
(* C16 *)

\* the calls by which the driver changes or gives up memory of the target
Touching == {"write", "write_int", "free"}

\* C16: while the foreign thread runs, the trampoline's memory, the code
\* buffer and the result buffer are allocated and hold what the driver put
\* there before it started the thread; the driver makes no write, write_int
\* or free call (not even a failing one) between inject_code and the end of
\* the thread, so every free comes after the thread has terminated
C16_RegionsUntouchedWhileThreadRuns ==
    /\ thread = "running" =>
          /\ {pInjectedMemory, code_address, return_code_address} \subseteq DOMAIN heap
          /\ heap[pInjectedMemory] = BytesCell(code)
          /\ heap[code_address] = BytesCell(python_code)
          /\ heap[return_code_address].kind = "int"
          /\ \A k \in DOMAIN trace :
                trace[k].op \in Touching => \E j \in Calls("inject_code") : k < j
    /\ \A m \in Recent :
          (trace[m].op = "free"
             \/ (trace[m].op \in Touching /\ \E j \in Calls("inject_code") : j < m)) =>
              /\ thread = "terminated"
              /\ \E x \in Calls("thread_exit") : x < m

\* the thread is running and the driver is held in thread.wait
C16_Witness ==
    /\ thread = "running"
    /\ pc = "wait"
    /\ ~Ended
    /\ Cardinality(DOMAIN heap) = 3

----------------------------------------------------------------------------
(* C17 *)

\* a run of run_python_code_windows whose preconditions hold and in which
\* nothing has failed
Succeeding ==
    /\ Windows
    /\ NoQuote(python_code)
    /\ ArchitectureMatches(target_bits = 64, python_64bit)
    /\ ~Raised

\* C17: thread.wait has no timeout.  The driver gets past the wait, and so
\* returns, only when the foreign thread has terminated; and in a run in
\* which no precondition and no call on the target ever fails and the foreign
\* thread terminates at some time, the driver returns in the end, with the
\* status the thread left
C17_ReturnsOnceThreadEnded ==
    /\ []((Windows /\ (Returned \/ Succeeded("wait") # {})) => thread = "terminated")
    /\ (<>(thread = "terminated") /\ []Succeeding)
          => <>(Returned /\ outcome.value \in Statuses)

\* the driver came back from a wait during which the thread ended
C17_Witness ==
    /\ Windows
    /\ Returned
    /\ thread = "terminated"
    /\ \E x \in Calls("thread_exit") : \E w \in Succeeded("wait") : x < w

----------------------------------------------------------------------------
(* C18 *)

\* the sleeps resolve_label made while it looked label up
SleepsOf(label) ==
    {k \in Calls("sleep") : k > 2 /\ trace[k - 2].op = "resolve_label"
                                   /\ trace[k - 2].arg = label}

\* what resolve_label does between its attempts: every lookup but the first
\* of a label comes right after a failed lookup of that label, a rescan and
\* a sleep of SLEEP units, in this order; there are at most RETRIES - 1
\* sleeps for a label, each right after a rescan that followed a failed
\* lookup; and the rescan after the last failed lookup is followed by no
\* sleep
RetryDiscipline ==
    \A step \in ResolveSteps :
       LET label == Label(step) IN
       /\ \A k \in Lookups(label) :
             (\E j \in Lookups(label) : j < k) =>
                /\ k > 3
                /\ trace[k - 3].op = "resolve_label"
                /\ trace[k - 3].arg = label
                /\ ~trace[k - 3].ok
                /\ trace[k - 2].op = "scan_modules"
                /\ trace[k - 1] = Event("sleep", SLEEP, TRUE)
       /\ \A k \in FailedLookups(label) :
             /\ k + 1 \in RetryScans
             /\ Cardinality({j \in FailedLookups(label) : j <= k}) < RETRIES =>
                   /\ k + 2 \in SleepsOf(label)
                   /\ ~(Raised /\ outcome.at = step /\ Len(trace) = k + 2)
             /\ Cardinality({j \in FailedLookups(label) : j <= k}) = RETRIES =>
                   /\ Len(trace) = k + 1
                   /\ Raised
       /\ Cardinality(SleepsOf(label)) <= RETRIES - 1
       /\ Calls("sleep") \subseteq
             SleepsOf("PyGILState_Ensure") \cup SleepsOf("AttachAndRunPythonCode")

\* an error of the rescan never leaves resolve_label
RescanErrorSwallowed ==
    \A step \in ResolveSteps :
        (Raised /\ outcome.at = step) => outcome.error # "WindowsError: scan_modules"

\* C18 (as claimed): between two consecutive lookups of resolve_label there is
\* a rescan and then a sleep of 2 units, and no retry starts without them; a
\* call sleeps at most twice and not after its third failed lookup; and an
\* error raised by the rescan is swallowed: it neither ends the loop early nor
\* leaves resolve_label
C18_RescanAndSleepBetweenLookups == RetryDiscipline /\ RescanErrorSwallowed

----------------------------------------------------------------------------
(* C19 *)

\* how many words of arguments the function called may remove from the stack
\* before it returns: none (cdecl), or up to the two it was given (stdcall)
Cleanups == 0..2

\* positions of 'mov to,from' between registers
Moves(ins, to, from) ==
    {k \in Positions(ins, "mov_rr") : ins[k].reg = to /\ ins[k].src = from}

\* C19: in the 32-bit trampoline the driver is about to inject, the two
\* immediates pushed have no pops of their own (there are as many pops as
\* registers pushed); one 'mov ebp,esp' comes before them and one
\* 'mov esp,ebp' after the call, so that, the function called preserving ebp,
\* the stack pointer at the ret is the one at entry whether that function
\* removes none, one or both of its arguments.  In the 64-bit trampoline as
\* many words are pushed as are popped, all before the ret.
C19_StackPointerRestored ==
    (pc = "inject_code") =>
        LET ins == Disasm(code, is_64) IN
        IF is_64
        THEN /\ Positions(ins, "push_imm") = {}
             /\ Cardinality(Positions(ins, "push")) = Cardinality(Positions(ins, "pop"))
             /\ Positions(ins, "push") # {}
             /\ \A k \in Positions(ins, "push") \cup Positions(ins, "pop") :
                   \A r \in Positions(ins, "ret") : k < r
        ELSE /\ Cardinality(Positions(ins, "push_imm")) = 2
             /\ Cardinality(Positions(ins, "push")) = Cardinality(Positions(ins, "pop"))
             /\ Cardinality(Moves(ins, 5, 4)) = 1
             /\ Cardinality(Moves(ins, 4, 5)) = 1
             /\ \A c \in Positions(ins, "call") :
                   /\ \A s \in Moves(ins, 5, 4) : \A k \in Positions(ins, "push_imm") :
                         s < k /\ k < c
                   /\ \A r \in Moves(ins, 4, 5) :
                         c < r /\ \A k \in Positions(ins, "pop") : r < k
             /\ \A cleanup \in Cleanups :
                   LET m == AtRet(ins, cleanup) IN
                   /\ ~m.fault
                   /\ m.called
                   /\ m.stack = <<>>
                   /\ m.regs[5] = Entry(5)
                   /\ m.regs[3] = Entry(3)

\* a 32-bit trampoline whose call is entered with five words on the stack:
\* three saved registers and the two arguments
C19_Witness ==
    /\ pc = "inject_code"
    /\ ~is_64
    /\ Len(AtRet(Disasm(code, is_64), 2).call_stack) = 5

\* a 64-bit trampoline with its five pushes
C19_Witness64 ==
    /\ pc = "inject_code"
    /\ is_64
    /\ Cardinality(Positions(Disasm(code, is_64), "push")) = 5

----------------------------------------------------------------------------
(* The with blocks on their own: a helper of either width on which scopes  *)
(* are opened with 'with helper.push(r)' and 'with helper.preserve_stack()',*)
(* nested at will; the statements in a body append instructions or raise;  *)
(* an error leaves the scopes one by one, innermost first                  *)

MaxChunks == 4

\* a fresh helper of either width, no scope open
InitScopes == InitEncoder

\* the statement just executed left the helper as h: execution goes on in
\* the body, or an error is on its way out
Continue(h) ==
    /\ helper_code' = h.code
    /\ IF h.err = ""
       THEN pc' = "helper" /\ outcome' = NoOutcome
       ELSE /\ pc' = "unwinding"
            /\ outcome' = [NoOutcome EXCEPT !.kind = "raising", !.error = h.err, !.at = pc]

\* 'with helper.push(r):', line 186: the push is appended and the scope
\* entered, or push raises and no scope is entered
EnterPush ==
    /\ pc = "helper"
    /\ Len(helper_code) < MaxChunks
    /\ \E r \in RegisterNames :
          LET h == push(Helper, r) IN
          /\ Continue(h)
          /\ scopes' = IF h.err = "" THEN Append(scopes, PopOnExit(r)) ELSE scopes
          /\ Log(<<Event("with", "push " \o r, h.err = "")>>)
    /\ UNCHANGED <<inputs, is_64, attach_func, code_address, return_code_address,
                   startup_info, code, pInjectedMemory, return_code, i, target, pk>>

\* 'with helper.preserve_stack():', line 203
EnterPreserveStack ==
    /\ pc = "helper"
    /\ Len(helper_code) < MaxChunks
    /\ LET h == preserve_stack(Helper) IN
          /\ Continue(h)
          /\ scopes' = IF h.err = "" THEN Append(scopes, RestoreStackOnExit) ELSE scopes
          /\ Log(<<Event("with", "mov ebp,esp", h.err = "")>>)
    /\ UNCHANGED <<inputs, is_64, attach_func, code_address, return_code_address,
                   startup_info, code, pInjectedMemory, return_code, i, target, pk>>

\* a statement of a body: an instruction is appended, or the statement
\* raises (an unknown mnemonic, or an address pack_address refuses)
BodyStatement ==
    /\ pc = "helper"
    /\ Len(helper_code) < MaxChunks
    /\ \E r \in RegisterNames :
       \E h \in {mov_to_register_addr(Helper, r, Operand(is_64)),
                 call(Helper, r),
                 push_addr(Helper, Operand(is_64)),
                 Argument(Helper, [err |-> "struct.error", bytes |-> <<>>])} :
          /\ Continue(h)
          /\ Log(<<Event("body", h.err, h.err = "")>>)
    /\ UNCHANGED <<inputs, is_64, attach_func, code_address, return_code_address,
                   startup_info, code, pInjectedMemory, return_code, i, target, unit>>

\* AutoExit.__exit__ of the innermost scope, lines 95-96: reached at the end
\* of its body, or by the error on its way out
LeaveScope ==
    /\ pc \in {"helper", "unwinding"}
    /\ scopes # <<>>
    /\ LET auto == scopes[Len(scopes)]
           h == AutoExit_exit(Helper, [Helper EXCEPT !.err = outcome.error], auto)
       IN  /\ helper_code' = h.code
           /\ IF h.err = ""
              THEN pc' = "helper" /\ outcome' = NoOutcome
              ELSE /\ pc' = "unwinding"
                   /\ outcome' = [NoOutcome EXCEPT !.kind = "raising", !.error = h.err,
                                                   !.at = IF pc = "unwinding" THEN outcome.at
                                                          ELSE pc]
           /\ Log(<<Event("exit", auto.fn, TRUE)>>)
    /\ scopes' = SubSeq(scopes, 1, Len(scopes) - 1)
    /\ UNCHANGED <<inputs, is_64, attach_func, code_address, return_code_address,
                   startup_info, code, pInjectedMemory, return_code, i, target, pk>>

\* the outermost scope is left: the error leaves the builder's caller, or
\* helper.ret() and helper.get_code() follow (lines 360-362)
Finish ==
    /\ pc \in {"helper", "unwinding"}
    /\ scopes = <<>>
    /\ helper_code # <<>>
    /\ pc' = "done"
    /\ IF pc = "unwinding"
       THEN /\ outcome' = [outcome EXCEPT !.kind = "raised"]
            /\ UNCHANGED <<helper_code, code>>
       ELSE /\ outcome' = [NoOutcome EXCEPT !.kind = "returned", !.at = pc]
            /\ helper_code' = ret(Helper).code
            /\ code' = get_code(ret(Helper))
    /\ UNCHANGED <<inputs, is_64, attach_func, code_address, return_code_address,
                   startup_info, pInjectedMemory, return_code, i, target, trace, unit>>

NextScopes ==
    \/ EnterPush
    \/ EnterPreserveStack
    \/ BodyStatement
    \/ LeaveScope
    \/ Finish

SpecScopes == InitScopes /\ [][NextScopes]_vars

----------------------------------------------------------------------------
(* C20 *)

\* the processor's number of a register name of either width
RegisterNumber(r) ==
    CASE r \in {"eax", "rax"} -> 0
      [] r \in {"ecx", "rcx"} -> 1
      [] r \in {"edx", "rdx"} -> 2
      [] r \in {"ebx", "rbx"} -> 3
      [] r \in {"esp", "rsp"} -> 4
      [] r \in {"ebp", "rbp"} -> 5
      [] r \in {"esi", "rsi"} -> 6
      [] r \in {"edi", "rdi"} -> 7

\* what a save leaves to be restored: the register pushed, or (8) the frame
\* set up by 'mov ebp,esp'
Frame == 8

SaveOf(auto) == IF auto.fn = "pop" THEN RegisterNumber(auto.register) ELSE Frame

RECURSIVE Unrestored(_, _)
\* the saves among the instructions ins that no later restore matches,
\* oldest first, given those (open) unmatched before ins; <<-1>> when a
\* restore comes that does not match the latest unmatched save
Unrestored(ins, open) ==
    IF ins = <<>> THEN open
    ELSE LET x == Head(ins)
             save == x.op = "push" \/ (x.op = "mov_rr" /\ x.reg = 5 /\ x.src = 4)
             restore == x.op = "pop" \/ (x.op = "mov_rr" /\ x.reg = 4 /\ x.src = 5)
             what == IF x.op \in {"push", "pop"} THEN x.reg ELSE Frame
         IN  IF save THEN Unrestored(Tail(ins), Append(open, what))
             ELSE IF restore
             THEN IF open # <<>> /\ open[Len(open)] = what
                  THEN Unrestored(Tail(ins), SubSeq(open, 1, Len(open) - 1))
                  ELSE <<-1>>
             ELSE Unrestored(Tail(ins), open)

\* C20: whatever is opened with 'with helper.push(r)' or 'with
\* helper.preserve_stack()', and however the bodies end, the saves in the
\* code appended so far that no restore has matched yet are exactly the
\* scopes still open, outermost first: leaving a scope, at the end of its
\* body or by an error, appends its restore once, and nothing else appends
\* one.  An error raised in a body is still on its way out after every
\* scope it leaves, and is what the caller gets when the last scope is left.
C20_ScopedSavesBalanced ==
    (pc \in {"helper", "unwinding", "done"}) =>
        /\ Unrestored(Disasm(Join(helper_code), is_64), <<>>)
              = [k \in DOMAIN scopes |-> SaveOf(scopes[k])]
        /\ pc = "done" => scopes = <<>>
        /\ (\E k \in DOMAIN trace : ~trace[k].ok) =>
              /\ pc \in {"unwinding", "done"}
              /\ outcome.kind = IF pc = "done" THEN "raised" ELSE "raising"
              /\ \E k \in DOMAIN trace :
                    /\ ~trace[k].ok
                    /\ \A j \in DOMAIN trace : ~trace[j].ok => j = k
                    /\ outcome.error = IF trace[k].op = "body" THEN trace[k].arg
                                       ELSE "KeyError"

\* two nested scopes were left by an error raised in the inner body, each
\* with its restore appended, and the error reached the caller
C20_Witness ==
    /\ pc = "done"
    /\ outcome.kind = "raised"
    /\ Cardinality(Calls("exit")) = 2
    /\ Cardinality(Succeeded("with")) = 2
    /\ \E k \in Calls("body") : ~trace[k].ok /\ \A j \in Calls("exit") : k < j
    /\ Len(helper_code) = 4

\* two nested scopes were left at the end of their bodies
C20_WitnessNormal ==
    /\ pc = "done"
    /\ outcome.kind = "returned"
    /\ Cardinality(Calls("exit")) = 2

============================================================================
